---- MODULE Spec2Model ----
(***************************************************************************)
(* Wormhole privacy score (ts/src/index.ts): the bucketed deposit pool,   *)
(* bucket selection, the CLT score and the binary-search calibrator.      *)
(*                                                                         *)
(* Scaling.  TLC computes on 32-bit integers, so two magnitudes of the    *)
(* source are scaled down; everything else keeps the source's constants.  *)
(*   UNIT          1 DEV = 10^12 planck in the source, 3 here;            *)
(*   MantissaBits  an IEEE double holds 53 significant bits, 7 here.      *)
(* The scaled pair keeps what matters about the originals: 2^MantissaBits *)
(* lies strictly inside the bucket schema (below the upper bounds of the  *)
(* top buckets), so Number(amount) rounds amounts near those bounds, and  *)
(* the bound minus one rounds up to the bound, as 16383999999999999 does. *)
(***************************************************************************)
EXTENDS Integers, Sequences, FiniteSets, TLC

UNIT == 3
MantissaBits == 7
NumOverlap == 12
WidthFactor == 16

\* Bounds of the model.
MaxCalls == 4

RECURSIVE Pow2(_)
Pow2(n) == IF n = 0 THEN 1 ELSE 2 * Pow2(n - 1)

(***************************************************************************)
(* Number(amount): bigint -> double, round to nearest, ties to even.      *)
(***************************************************************************)
RECURSIVE Ulp(_)
Ulp(a) == IF a < Pow2(MantissaBits) THEN 1 ELSE 2 * Ulp(a \div 2)

NumberOf(a) ==
    LET s == Ulp(a)
        q == a \div s
        r == a % s
    IN  IF 2 * r < s THEN q * s
        ELSE IF 2 * r > s THEN (q + 1) * s
        ELSE IF q % 2 = 0 THEN q * s ELSE (q + 1) * s

(***************************************************************************)
(* standardBucketBoundaries / createPool                                   *)
(***************************************************************************)
standardBucketBoundaries ==
    <<[lo |-> 0, hi |-> 1 * UNIT]>> \o
    [j \in 1..NumOverlap |->
        [lo |-> Pow2(j - 1) * UNIT, hi |-> Pow2(j - 1) * WidthFactor * UNIT]]

createPool ==
    [j \in 1..Len(standardBucketBoundaries) |->
        [lo |-> standardBucketBoundaries[j].lo,
         hi |-> standardBucketBoundaries[j].hi,
         count |-> 0, sumAmounts |-> 0, sumAmountsSquared |-> 0]]

NumBuckets == Len(standardBucketBoundaries)

Max(a, b) == IF a >= b THEN a ELSE b
Min(a, b) == IF a <= b THEN a ELSE b

(***************************************************************************)
(* addDeposit / removeDeposit: the loop over the buckets, membership       *)
(* decided on amountNum = Number(amount), sums kept on the exact bigint.   *)
(***************************************************************************)
addDeposit(p, amount) ==
    LET amountNum == NumberOf(amount) IN
    [j \in 1..Len(p) |->
        IF amountNum >= p[j].lo /\ amountNum < p[j].hi
        THEN [p[j] EXCEPT !.count = @ + 1,
                          !.sumAmounts = @ + amount,
                          !.sumAmountsSquared = @ + amount * amount]
        ELSE p[j]]

removeDepositNoClamp(p, amount) ==
    LET amountNum == NumberOf(amount) IN
    [j \in 1..Len(p) |->
        IF amountNum >= p[j].lo /\ amountNum < p[j].hi
        THEN [p[j] EXCEPT !.count = Max(0, @ - 1),
                          !.sumAmounts = @ - amount,
                          !.sumAmountsSquared = @ - amount * amount]
        ELSE p[j]]

removeDeposit(p, amount) ==
    LET amountNum == NumberOf(amount) IN
    [j \in 1..Len(p) |->
        IF amountNum >= p[j].lo /\ amountNum < p[j].hi
        THEN [p[j] EXCEPT !.count = Max(0, @ - 1),
                          !.sumAmounts = Max(0, @ - amount),
                          !.sumAmountsSquared = Max(0, @ - amount * amount)]
        ELSE p[j]]

(***************************************************************************)
(* JavaScript numbers.  A number is <<"nan", 0>>, <<"inf", +1 or -1>> or   *)
(* <<"fin", v>>, the finite value v / 2^FracBits: binary fixed point with  *)
(* FracBits fractional bits, every operation rounding toward zero, and a   *)
(* result of magnitude 2^IntBits or more overflowing to an infinity.  NaN  *)
(* and the infinities follow IEEE 754: NaN propagates through arithmetic,  *)
(* every comparison with NaN is false, x/0 is an infinity or NaN.          *)
(***************************************************************************)
FracBits == 12
IntBits == 18
One == Pow2(FracBits)
Limit == Pow2(IntBits)

NaN == <<"nan", 0>>
PosInf == <<"inf", 1>>
NegInf == <<"inf", -1>>
Fin(v) == <<"fin", v>>
Inf(s) == <<"inf", s>>
Zero == Fin(0)

IsNaN(a) == a[1] = "nan"
IsInf(a) == a[1] = "inf"
IsFin(a) == a[1] = "fin"
Abs(v) == IF v < 0 THEN -v ELSE v
Sgn(v) == IF v > 0 THEN 1 ELSE IF v < 0 THEN -1 ELSE 0

fromInt(n) == IF Abs(n) >= Limit THEN Inf(Sgn(n)) ELSE Fin(n * One)

\* |a * b| / One for magnitudes a, b; -1 when the product overflows.
MulMag(a, b) ==
    LET ah == a \div One
        al == a % One
        bh == b \div One
        bl == b % One
    IN  IF ah + 1 > Limit \div (bh + 1) THEN -1
        ELSE ah * bh * One + ah * bl + al * bh + (al * bl) \div One

fMul(a, b) ==
    IF IsNaN(a) \/ IsNaN(b) THEN NaN
    ELSE LET s == Sgn(a[2]) * Sgn(b[2]) IN
         IF IsInf(a) \/ IsInf(b) THEN (IF s = 0 THEN NaN ELSE Inf(s))
         ELSE LET m == MulMag(Abs(a[2]), Abs(b[2])) IN
              IF m < 0 THEN Inf(s) ELSE Fin(s * m)

\* The n fractional bits of r / b, for 0 <= r < b.
RECURSIVE DivFrac(_, _, _)
DivFrac(r, b, n) ==
    IF n = 0 THEN 0
    ELSE IF 2 * r >= b THEN Pow2(n - 1) + DivFrac(2 * r - b, b, n - 1)
         ELSE DivFrac(2 * r, b, n - 1)

fDiv(a, b) ==
    IF IsNaN(a) \/ IsNaN(b) THEN NaN
    ELSE IF IsInf(a) THEN (IF IsInf(b) THEN NaN
                           ELSE Inf(a[2] * (IF b[2] >= 0 THEN 1 ELSE -1)))
    ELSE IF IsInf(b) THEN Zero
    ELSE IF b[2] = 0 THEN (IF a[2] = 0 THEN NaN ELSE Inf(Sgn(a[2])))
    ELSE LET s == Sgn(a[2]) * Sgn(b[2])
             A == Abs(a[2])
             B == Abs(b[2])
             q == A \div B
         IN  IF q >= Limit THEN Inf(s)
             ELSE Fin(s * (q * One + DivFrac(A % B, B, FracBits)))

fNeg(a) == IF IsNaN(a) THEN NaN ELSE <<a[1], -a[2]>>

fAdd(a, b) ==
    IF IsNaN(a) \/ IsNaN(b) THEN NaN
    ELSE IF IsInf(a) THEN (IF IsInf(b) /\ b[2] # a[2] THEN NaN ELSE a)
    ELSE IF IsInf(b) THEN b
    ELSE LET v == a[2] + b[2] IN
         IF Abs(v) >= Limit * One THEN Inf(Sgn(v)) ELSE Fin(v)

fSub(a, b) == fAdd(a, fNeg(b))
fAbs(a) == IF IsNaN(a) THEN NaN ELSE <<a[1], Abs(a[2])>>

\* Position of a non-NaN number on the extended real line.
Key(a) == IF IsInf(a) THEN a[2] * Limit * One ELSE a[2]
fLt(a, b) == ~IsNaN(a) /\ ~IsNaN(b) /\ Key(a) < Key(b)
fLe(a, b) == ~IsNaN(a) /\ ~IsNaN(b) /\ Key(a) <= Key(b)
fGt(a, b) == fLt(b, a)
fGe(a, b) == fLe(b, a)
fEq(a, b) == ~IsNaN(a) /\ ~IsNaN(b) /\ Key(a) = Key(b)

\* Math.max(a, b): NaN when either argument is NaN.
fMax(a, b) ==
    IF IsNaN(a) \/ IsNaN(b) THEN NaN
    ELSE IF Key(a) >= Key(b) THEN a ELSE b

\* Math.sqrt: the largest x with x * x <= a * One, found bit by bit.
RECURSIVE SqrtIter(_, _, _)
SqrtIter(a, x, bit) ==
    IF bit = 0 THEN x
    ELSE LET c == x + bit
             m == MulMag(c, c)
         IN  IF m >= 0 /\ (m < a \/ (m = a /\ ((c % One) * (c % One)) % One = 0))
             THEN SqrtIter(a, c, bit \div 2)
             ELSE SqrtIter(a, x, bit \div 2)

fSqrt(a) ==
    IF IsNaN(a) THEN NaN
    ELSE IF IsInf(a) THEN (IF a[2] > 0 THEN a ELSE NaN)
    ELSE IF a[2] < 0 THEN NaN
    ELSE Fin(SqrtIter(a[2], 0, Pow2(20)))

\* Math.log2 and Math.pow(2, .): tables of log2(1 + i/16) and 2^(-i/16) at
\* FracBits bits, interpolated linearly.
Log2Table ==
    <<0, 358, 696, 1016, 1319, 1607, 1882, 2145, 2396, 2637, 2869, 3092,
      3307, 3514, 3715, 3908, 4096>>
Pow2Table ==
    <<4096, 3922, 3756, 3597, 3444, 3298, 3158, 3025, 2896, 2774, 2656, 2543,
      2435, 2332, 2233, 2139, 2048>>

Log2Mant(m) ==
    LET i == ((m - One) * 16) \div One
        r == (m - One) * 16 - i * One
    IN  (Log2Table[i + 1] * (One - r) + Log2Table[i + 2] * r) \div One

RECURSIVE Log2Raw(_)
Log2Raw(v) ==
    IF v >= 2 * One THEN One + Log2Raw(v \div 2)
    ELSE IF v < One THEN Log2Raw(2 * v) - One
    ELSE Log2Mant(v)

fLog2(a) ==
    IF IsNaN(a) THEN NaN
    ELSE IF IsInf(a) THEN (IF a[2] > 0 THEN a ELSE NaN)
    ELSE IF a[2] < 0 THEN NaN
    ELSE IF a[2] = 0 THEN NegInf
    ELSE Fin(Log2Raw(a[2]))

Pow2Frac(f) ==
    LET i == (f * 16) \div One
        r == f * 16 - i * One
    IN  (Pow2Table[i + 1] * (One - r) + Pow2Table[i + 2] * r) \div One

fPow2(a) ==
    IF IsNaN(a) THEN NaN
    ELSE IF IsInf(a) THEN (IF a[2] > 0 THEN PosInf ELSE Zero)
    ELSE IF a[2] <= 0
         THEN LET w == -a[2]
                  n == w \div One
              IN  Fin(IF n <= FracBits + 1 THEN Pow2Frac(w % One) \div Pow2(n) ELSE 0)
         ELSE LET n == (a[2] + One - 1) \div One IN
              IF n >= IntBits THEN PosInf
              ELSE Fin(Pow2Frac(n * One - a[2]) * Pow2(n))

\* Math.exp(a) = 2^(a * log2 e)
Log2E == Fin(5909)
fExp(a) == fPow2(fMul(a, Log2E))

(***************************************************************************)
(* normalCdf: Abramowitz & Stegun 26.2.17, the coefficients at FracBits    *)
(* bits (truncated).                                                       *)
(***************************************************************************)
a1 == Fin(1043)
a2 == Fin(-1165)
a3 == Fin(5822)
a4 == Fin(-5952)
a5 == Fin(4347)
pCoef == Fin(1341)
SQRT2 == Fin(5792)
FOne == Fin(One)
Half == Fin(One \div 2)

normalCdfNoSign(z) ==
    IF fLt(z, fromInt(-8)) THEN Zero
    ELSE IF fGt(z, fromInt(8)) THEN FOne
    ELSE LET x == fDiv(fAbs(z), SQRT2)
             t == fDiv(FOne, fAdd(FOne, fMul(pCoef, x)))
             poly == fMul(fAdd(fMul(fAdd(fMul(fAdd(fMul(fAdd(fMul(a5, t), a4), t),
                                                   a3), t), a2), t), a1), t)
             y == fSub(FOne, fMul(poly, fExp(fNeg(fMul(x, x)))))
         IN  fMul(Half, fAdd(FOne, y))

normalCdf(z) ==
    IF fLt(z, fromInt(-8)) THEN Zero
    ELSE IF fGt(z, fromInt(8)) THEN FOne
    ELSE LET sign == IF fLt(z, Zero) THEN fromInt(-1) ELSE FOne
             x == fDiv(fAbs(z), SQRT2)
             t == fDiv(FOne, fAdd(FOne, fMul(pCoef, x)))
             poly == fMul(fAdd(fMul(fAdd(fMul(fAdd(fMul(fAdd(fMul(a5, t), a4), t),
                                                   a3), t), a2), t), a1), t)
             y == fSub(FOne, fMul(poly, fExp(fNeg(fMul(x, x)))))
         IN  fMul(Half, fAdd(FOne, fMul(sign, y)))

(***************************************************************************)
(* log2Binomial                                                            *)
(***************************************************************************)
RECURSIVE Log2BinomialLoopFromOne(_, _, _, _)
Log2BinomialLoopFromOne(n, kk, i, result) ==
    IF i < kk
    THEN Log2BinomialLoopFromOne(n, kk, i + 1,
             fAdd(result, fSub(fLog2(fromInt(n - i)), fLog2(fromInt(i)))))
    ELSE result

RECURSIVE Log2BinomialLoop(_, _, _, _)
Log2BinomialLoop(n, kk, i, result) ==
    IF i < kk
    THEN Log2BinomialLoop(n, kk, i + 1,
             fAdd(result, fSub(fLog2(fromInt(n - i)), fLog2(fromInt(i + 1)))))
    ELSE result

log2Binomial(n, k) ==
    IF k < 0 \/ k > n THEN Zero
    ELSE IF k = 0 \/ k = n THEN Zero
    ELSE Log2BinomialLoop(n, Min(k, n - k), 0, Zero)

(***************************************************************************)
(* selectBucket: the loop over the buckets; the result is the index of the *)
(* bucket returned, 0 for null.                                            *)
(***************************************************************************)
RECURSIVE SelectLoop(_, _, _, _, _)
SelectLoop(p, target, j, best, bestHeadroom) ==
    IF j > Len(p) THEN best
    ELSE IF p[j].count = 0 THEN SelectLoop(p, target, j + 1, best, bestHeadroom)
    ELSE IF fGe(target, fromInt(p[j].lo)) /\ fLt(target, fromInt(p[j].hi))
         THEN LET headroom == fSub(fromInt(p[j].hi), target) IN
              IF fLt(headroom, bestHeadroom)
              THEN SelectLoop(p, target, j + 1, j, headroom)
              ELSE SelectLoop(p, target, j + 1, best, bestHeadroom)
         ELSE SelectLoop(p, target, j + 1, best, bestHeadroom)

selectBucketAny(p, target) ==
    LET fits == {j \in 1..Len(p) :
                    fGe(target, fromInt(p[j].lo)) /\ fLt(target, fromInt(p[j].hi))}
    IN  IF fits = {} THEN 0 ELSE CHOOSE j \in fits : \A i \in fits : j <= i

selectBucket(p, target) == SelectLoop(p, target, 1, 0, PosInf)

(***************************************************************************)
(* privacyScore                                                            *)
(***************************************************************************)
feeMultiplierOf(feeBps) == fDiv(fromInt(10000), fromInt(10000 - feeBps))
inputLoOf(outputAmount, feeBps) == fMul(fromInt(outputAmount), feeMultiplierOf(feeBps))
inputHiOf(outputAmount, dist, feeBps) ==
    fMul(fromInt(outputAmount + dist), feeMultiplierOf(feeBps))

muOf(b) == fDiv(fromInt(NumberOf(b.sumAmounts)), fromInt(b.count))
sigmaOf(b) ==
    LET mu == muOf(b)
        meanSq == fDiv(fromInt(NumberOf(b.sumAmountsSquared)), fromInt(b.count))
        variance == fSub(meanSq, fMul(mu, mu))
    IN  fSqrt(fMax(Zero, variance))

\* pK of one subset size k (lines 238-243).
pKOf(k, mu, sigma, inputLo, inputHi) ==
    LET sumMean == fMul(fromInt(k), mu)
        sumStd == fMul(sigma, fSqrt(fromInt(k)))
        zLo == fDiv(fSub(inputLo, sumMean), sumStd)
        zHi == fDiv(fSub(inputHi, sumMean), sumStd)
    IN  fSub(normalCdf(zHi), normalCdf(zLo))

\* The loop over k (lines 237-253): the retained logTerms and maxLogTerm.
\* TermLoop tests the loop condition and computes pK, TermOf tests pK and
\* computes logTerm, TermPush pushes it.
RECURSIVE TermLoop(_, _, _, _, _, _, _, _, _)
RECURSIVE TermOf(_, _, _, _, _, _, _, _, _, _)
RECURSIVE TermPush(_, _, _, _, _, _, _, _, _, _)
TermPush(k, effectiveKMax, D, mu, sigma, inputLo, inputHi, logTerms, maxLogTerm, logTerm) ==
    IF fGt(logTerm, maxLogTerm)
    THEN TermLoop(k + 1, effectiveKMax, D, mu, sigma, inputLo, inputHi,
                  Append(logTerms, logTerm), logTerm)
    ELSE TermLoop(k + 1, effectiveKMax, D, mu, sigma, inputLo, inputHi,
                  Append(logTerms, logTerm), maxLogTerm)

TermOfLt(k, effectiveKMax, D, mu, sigma, inputLo, inputHi, logTerms, maxLogTerm, pK) ==
    IF fLt(pK, Zero)
    THEN TermLoop(k + 1, effectiveKMax, D, mu, sigma, inputLo, inputHi,
                  logTerms, maxLogTerm)
    ELSE TermPush(k, effectiveKMax, D, mu, sigma, inputLo, inputHi, logTerms,
                  maxLogTerm, fAdd(log2Binomial(D, k), fLog2(pK)))

TermOf(k, effectiveKMax, D, mu, sigma, inputLo, inputHi, logTerms, maxLogTerm, pK) ==
    IF fLe(pK, Zero)
    THEN TermLoop(k + 1, effectiveKMax, D, mu, sigma, inputLo, inputHi,
                  logTerms, maxLogTerm)
    ELSE TermPush(k, effectiveKMax, D, mu, sigma, inputLo, inputHi, logTerms,
                  maxLogTerm, fAdd(log2Binomial(D, k), fLog2(pK)))

TermLoop(k, effectiveKMax, D, mu, sigma, inputLo, inputHi, logTerms, maxLogTerm) ==
    IF k > effectiveKMax THEN [logTerms |-> logTerms, maxLogTerm |-> maxLogTerm]
    ELSE TermOf(k, effectiveKMax, D, mu, sigma, inputLo, inputHi, logTerms,
                maxLogTerm, pKOf(k, mu, sigma, inputLo, inputHi))

RECURSIVE SumExp(_, _, _)
SumExp(logTerms, maxLogTerm, i) ==
    IF i > Len(logTerms) THEN Zero
    ELSE fAdd(fPow2(fSub(logTerms[i], maxLogTerm)), SumExp(logTerms, maxLogTerm, i + 1))

\* Lines 255-263: the log-sum-exp over the retained terms r.
aggregate(r) ==
    IF Len(r.logTerms) = 0 THEN Zero
    ELSE fMax(Zero, fAdd(r.maxLogTerm, fLog2(SumExp(r.logTerms, r.maxLogTerm, 1))))

\* Lines 234-263 for the selected bucket b.
scoreOfBucket(b, sigma, inputLo, inputHi, kMin, effectiveKMax) ==
    aggregate(TermLoop(kMin, effectiveKMax, b.count, muOf(b), sigma, inputLo, inputHi,
                       <<>>, NegInf))

scoreWithSigmaNoCheck(b, sigma, inputLo, inputHi, kMin, effectiveKMax) ==
    IF kMin > effectiveKMax THEN Zero
    ELSE scoreOfBucket(b, sigma, inputLo, inputHi, kMin, effectiveKMax)

\* Lines 229-263: bucket b with its sigma and effectiveKMax computed.
scoreWithSigma(b, sigma, inputLo, inputHi, kMin, effectiveKMax) ==
    IF fEq(sigma, Zero) THEN Zero
    ELSE IF kMin > effectiveKMax THEN Zero
    ELSE scoreOfBucket(b, sigma, inputLo, inputHi, kMin, effectiveKMax)

\* Lines 221-263: bucket is what selectBucket returned.
scoreInBucket(bucket, p, inputLo, inputHi, kMin, kMax) ==
    IF bucket = 0 THEN Zero
    ELSE IF p[bucket].count = 0 THEN Zero
    ELSE scoreWithSigma(p[bucket], sigmaOf(p[bucket]), inputLo, inputHi, kMin,
                        Min(kMax, p[bucket].count))

\* Line 220 with selectBucket's target taken from inputHi, which grows with
\* dist, instead of inputLo.
bucketOfInputHi(outputAmount, dist, p, feeBps) ==
    selectBucket(p, inputHiOf(outputAmount, dist, feeBps))

\* Lines 216-220: the bucket that a call of privacyScore scores, as a function
\* of the arguments in scope at line 220 (0 stands for null).
bucketOf(outputAmount, dist, p, feeBps) ==
    selectBucket(p, inputLoOf(outputAmount, feeBps))

privacyScore(outputAmount, dist, p, feeBps, kMin, kMax) ==
    scoreInBucket(bucketOf(outputAmount, dist, p, feeBps), p,
                  inputLoOf(outputAmount, feeBps),
                  inputHiOf(outputAmount, dist, feeBps), kMin, kMax)

(***************************************************************************)
(* findMinDist.  maxDistFraction is given in tenths; the result is         *)
(* [null |-> TRUE] for null, else [null |-> FALSE, dist |-> h].            *)
(***************************************************************************)
Null == [null |-> TRUE, dist |-> 0]
Found(h) == [null |-> FALSE, dist |-> h]

maxDistOf(outputAmount, maxDistTenths) == (outputAmount * maxDistTenths) \div 10

RECURSIVE SearchLoop(_, _, _, _, _, _, _, _)
SearchLoop(lo, hi, outputAmount, p, feeBps, kMin, kMax, targetBits) ==
    IF hi - lo > 1
    THEN LET mid == (lo + hi) \div 2 IN
         IF fGe(privacyScore(outputAmount, mid, p, feeBps, kMin, kMax), targetBits)
         THEN SearchLoop(lo, mid, outputAmount, p, feeBps, kMin, kMax, targetBits)
         ELSE SearchLoop(mid, hi, outputAmount, p, feeBps, kMin, kMax, targetBits)
    ELSE hi

findMinDistLe(outputAmount, p, feeBps, kMin, kMax, targetBits, maxDistTenths) ==
    LET maxDist == maxDistOf(outputAmount, maxDistTenths) IN
    IF fLe(privacyScore(outputAmount, maxDist, p, feeBps, kMin, kMax), targetBits)
    THEN Null
    ELSE IF fGe(privacyScore(outputAmount, 0, p, feeBps, kMin, kMax), targetBits)
    THEN Found(0)
    ELSE Found(SearchLoop(0, maxDist, outputAmount, p, feeBps, kMin, kMax, targetBits))

findMinDistGt(outputAmount, p, feeBps, kMin, kMax, targetBits, maxDistTenths) ==
    LET maxDist == maxDistOf(outputAmount, maxDistTenths) IN
    IF fLt(privacyScore(outputAmount, maxDist, p, feeBps, kMin, kMax), targetBits)
    THEN Null
    ELSE IF fGt(privacyScore(outputAmount, 0, p, feeBps, kMin, kMax), targetBits)
    THEN Found(0)
    ELSE Found(SearchLoop(0, maxDist, outputAmount, p, feeBps, kMin, kMax, targetBits))

findMinDist(outputAmount, p, feeBps, kMin, kMax, targetBits, maxDistTenths) ==
    LET maxDist == maxDistOf(outputAmount, maxDistTenths) IN
    IF fLt(privacyScore(outputAmount, maxDist, p, feeBps, kMin, kMax), targetBits)
    THEN Null
    ELSE IF fGe(privacyScore(outputAmount, 0, p, feeBps, kMin, kMax), targetBits)
    THEN Found(0)
    ELSE Found(SearchLoop(0, maxDist, outputAmount, p, feeBps, kMin, kMax, targetBits))

(***************************************************************************)
(* State.  pool is the DepositPoolStats object; call is the last call     *)
(* made on it with its arguments and result.  live, matched and calls are *)
(* history: the multiset of deposits added and not yet removed, whether   *)
(* every removal so far removed such a deposit, and the number of         *)
(* addDeposit/removeDeposit calls made.                                    *)
(***************************************************************************)
VARIABLES pool, call, live, matched, calls

vars == <<pool, call, live, matched, calls>>

\* Amounts an indexer can submit: sub-UNIT ones, ones in several buckets,
\* ones above 2^MantissaBits next to a bucket bound, and ones past the schema.
TopHi == standardBucketBoundaries[NumBuckets].hi

Amounts == {1, 2, 20, 47, 191, TopHi}
ScoreAmounts == {1, 2, 20, 40}
AllAmounts == Amounts \cup ScoreAmounts

NoCall == [op |-> "createPool"]

Init ==
    /\ pool = createPool
    /\ call = NoCall
    /\ live = [a \in AllAmounts |-> 0]
    /\ matched = TRUE
    /\ calls = 0

AddDeposit ==
    \E amount \in Amounts :
        /\ calls < MaxCalls
        /\ pool' = addDeposit(pool, amount)
        /\ call' = [op |-> "addDeposit", amount |-> amount]
        /\ live' = [live EXCEPT ![amount] = @ + 1]
        /\ calls' = calls + 1
        /\ UNCHANGED matched

RemoveDeposit ==
    \E amount \in Amounts :
        /\ calls < MaxCalls
        /\ pool' = removeDeposit(pool, amount)
        /\ call' = [op |-> "removeDeposit", amount |-> amount]
        /\ live' = [live EXCEPT ![amount] = Max(0, @ - 1)]
        /\ matched' = (matched /\ live[amount] > 0)
        /\ calls' = calls + 1

Next == AddDeposit \/ RemoveDeposit

Spec == Init /\ [][Next]_vars

(***************************************************************************)
(* The scoring interface: the pool is maintained as above, with deposits   *)
(* small enough for the fixed-point range, and a wallet calls selectBucket,*)
(* privacyScore and findMinDist on whatever pool there is.  These calls    *)
(* leave the pool alone and only replace the record in call, so a call     *)
(* made right after another one reaches the states that call reaches when  *)
(* made first: AfterPoolCall takes each of them once per pool history.     *)
(* live and matched are kept under Spec only.                              *)
(***************************************************************************)
MaxScoreCalls == 3

OutputAmounts == {0, 20}
Dists == {0, 5, 40}
FeesBps == {10, 10000, 20000}
SearchFeesBps == {10, 10000}
KMins == {-1, 0, 1, 2}
KMaxs == {1, 16}
MaxDistTenths == {1, 20}
TargetBits == {Zero, Fin(One \div 2), fromInt(100)}
Targets == {NaN, PosInf, Zero, fromInt(2), fromInt(20), Fin(47 * One + 1), fromInt(48)}

AfterPoolCall == call.op \in {"createPool", "addDeposit", "removeDeposit"}

ScoreAddDeposit ==
    \E amount \in ScoreAmounts :
        /\ calls < MaxScoreCalls
        /\ pool' = addDeposit(pool, amount)
        /\ call' = [op |-> "addDeposit", amount |-> amount]
        /\ calls' = calls + 1
        /\ UNCHANGED <<live, matched>>

ScoreRemoveDeposit ==
    \E amount \in ScoreAmounts :
        /\ calls < MaxScoreCalls
        /\ pool' = removeDeposit(pool, amount)
        /\ call' = [op |-> "removeDeposit", amount |-> amount]
        /\ calls' = calls + 1
        /\ UNCHANGED <<live, matched>>

SelectBucket ==
    \E target \in Targets :
        /\ AfterPoolCall
        /\ call' = [op |-> "selectBucket", target |-> target,
                    result |-> selectBucket(pool, target)]
        /\ UNCHANGED <<pool, live, matched, calls>>

PrivacyScore ==
    \E outputAmount \in OutputAmounts, dist \in Dists, feeBps \in FeesBps,
       kMin \in KMins, kMax \in KMaxs :
        /\ AfterPoolCall
        /\ call' = [op |-> "privacyScore", outputAmount |-> outputAmount,
                    dist |-> dist, feeBps |-> feeBps, kMin |-> kMin, kMax |-> kMax,
                    bucket |-> bucketOf(outputAmount, dist, pool, feeBps),
                    result |-> privacyScore(outputAmount, dist, pool, feeBps, kMin, kMax)]
        /\ UNCHANGED <<pool, live, matched, calls>>

FindMinDist ==
    \E outputAmount \in OutputAmounts, feeBps \in SearchFeesBps, kMin \in KMins,
       kMax \in KMaxs, targetBits \in TargetBits, maxDistTenths \in MaxDistTenths :
        /\ AfterPoolCall
        /\ call' = [op |-> "findMinDist", outputAmount |-> outputAmount,
                    feeBps |-> feeBps, kMin |-> kMin, kMax |-> kMax,
                    targetBits |-> targetBits, maxDistTenths |-> maxDistTenths,
                    result |-> findMinDist(outputAmount, pool, feeBps, kMin, kMax,
                                           targetBits, maxDistTenths)]
        /\ UNCHANGED <<pool, live, matched, calls>>

NextScore ==
    \/ ScoreAddDeposit
    \/ ScoreRemoveDeposit
    \/ SelectBucket
    \/ PrivacyScore
    \/ FindMinDist

SpecScore == Init /\ [][NextScore]_vars

(***************************************************************************)
(* Pool maintenance: C1, C2, C3                                            *)
(***************************************************************************)
RECURSIVE SumOver(_, _)
SumOver(S, f) ==
    IF S = {} THEN 0
    ELSE LET a == CHOOSE x \in S : TRUE IN f[a] + SumOver(S \ {a}, f)

\* The deposits of live whose exact amount lies in bucket b's [lo, hi).
InRange(b, a) == b.lo <= a /\ a < b.hi
LiveCount(b) == SumOver(AllAmounts, [a \in AllAmounts |-> IF InRange(b, a) THEN live[a] ELSE 0])
LiveSum(b) == SumOver(AllAmounts, [a \in AllAmounts |-> IF InRange(b, a) THEN live[a] * a ELSE 0])
LiveSumSq(b) == SumOver(AllAmounts, [a \in AllAmounts |-> IF InRange(b, a) THEN live[a] * a * a ELSE 0])

\* C1: addDeposit(pool, a) changes exactly the buckets whose range contains
\* the amount a (lo <= a < hi): count+1, sumAmounts+a, sumAmountsSquared+a*a;
\* every other bucket keeps its statistics, and no lo, hi or the number of
\* buckets changes.
C1_AddDepositFrame ==
    [][call'.op = "addDeposit" =>
         /\ Len(pool') = Len(pool)
         /\ \A j \in 1..Len(pool) :
              /\ pool'[j].lo = pool[j].lo
              /\ pool'[j].hi = pool[j].hi
              /\ IF InRange(pool[j], call'.amount)
                 THEN /\ pool'[j].count = pool[j].count + 1
                      /\ pool'[j].sumAmounts = pool[j].sumAmounts + call'.amount
                      /\ pool'[j].sumAmountsSquared =
                           pool[j].sumAmountsSquared + call'.amount * call'.amount
                 ELSE /\ pool'[j].count = pool[j].count
                      /\ pool'[j].sumAmounts = pool[j].sumAmounts
                      /\ pool'[j].sumAmountsSquared = pool[j].sumAmountsSquared]_vars

\* C2: after any sequence of addDeposit and removeDeposit calls, every bucket
\* has count >= 0, sumAmounts >= 0 and sumAmountsSquared >= 0.
C2_NonNegative ==
    \A j \in 1..Len(pool) :
        /\ pool[j].count >= 0
        /\ pool[j].sumAmounts >= 0
        /\ pool[j].sumAmountsSquared >= 0

\* A removal of an amount larger than what its bucket held has just run.
C2_Witness ==
    /\ call.op = "removeDeposit"
    /\ ~matched
    /\ \E j \in 1..Len(pool) :
         /\ NumberOf(call.amount) >= pool[j].lo /\ NumberOf(call.amount) < pool[j].hi
         /\ pool[j].count > 0
         /\ pool[j].sumAmounts = 0

\* C3: while every removeDeposit(a) was matched by an earlier, not yet
\* removed addDeposit(a), each bucket's count, sumAmounts and
\* sumAmountsSquared are the number, sum and sum of squares of the remaining
\* deposits whose amount lies in the bucket's [lo, hi).
C3_ExactStatistics ==
    matched =>
        \A j \in 1..Len(pool) :
            /\ pool[j].count = LiveCount(pool[j])
            /\ pool[j].sumAmounts = LiveSum(pool[j])
            /\ pool[j].sumAmountsSquared = LiveSumSq(pool[j])

\* The buckets with count > 0 whose [lo, hi) contains the number t.
Qualifying(t) ==
    {j \in 1..Len(pool) :
        pool[j].count > 0 /\ fGe(t, fromInt(pool[j].lo)) /\ fLt(t, fromInt(pool[j].hi))}
Headroom(j, t) == fSub(fromInt(pool[j].hi), t)

CallInputLo == inputLoOf(call.outputAmount, call.feeBps)
CallBucket ==
    CHOOSE j \in Qualifying(CallInputLo) :
        \A i \in Qualifying(CallInputLo) : pool[j].hi <= pool[i].hi
ScoreAt(d) ==
    privacyScore(call.outputAmount, d, pool, call.feeBps, call.kMin, call.kMax)

\* C5: privacyScore returns exactly 0 when no bucket with count > 0 contains
\* inputLo, or the selected bucket has sigma = 0, or
\* kMin > min(kMax, bucket.count).
C5_ZeroScore ==
    call.op = "privacyScore" =>
        IF Qualifying(CallInputLo) = {} THEN call.result = Zero
        ELSE (\/ fEq(sigmaOf(pool[CallBucket]), Zero)
              \/ call.kMin > Min(call.kMax, pool[CallBucket].count))
                 => call.result = Zero

\* privacyScore was called where only the zero variance of the selected
\* bucket, which holds several deposits, makes the score 0.
C5_Witness ==
    /\ call.op = "privacyScore"
    /\ Qualifying(CallInputLo) # {}
    /\ pool[CallBucket].count >= 2
    /\ fEq(sigmaOf(pool[CallBucket]), Zero)
    /\ call.kMin <= Min(call.kMax, pool[CallBucket].count)
    /\ call.dist > 0
    /\ call.result = Zero

\* C6: for all inputs and any pool reachable by addDeposit/removeDeposit,
\* privacyScore returns a well-defined number that is >= 0: never NaN and
\* never negative.
C6_WellDefinedScore ==
    call.op = "privacyScore" => ~IsNaN(call.result) /\ fGe(call.result, Zero)

\* C7: privacyScore is non-decreasing in dist: for a fixed pool, outputAmount,
\* feeBps, kMin and kMax and d1 <= d2, the score at d1 is <= the score at d2.
C7_MonotoneInDist ==
    call.op = "privacyScore" =>
        \A d2 \in Dists : call.dist <= d2 => fLe(call.result, ScoreAt(d2))

\* C8: when findMinDist returns a number h, h is the smallest integer dist in
\* [0, maxDist] for which privacyScore(outputAmount, dist, ...) >= targetBits.
C8_MinimalDist ==
    (call.op = "findMinDist" /\ ~call.result.null) =>
        /\ call.result.dist \in 0..maxDistOf(call.outputAmount, call.maxDistTenths)
        /\ fGe(ScoreAt(call.result.dist), call.targetBits)
        /\ \A d \in 0..(call.result.dist - 1) : ~fGe(ScoreAt(d), call.targetBits)

C10_ZeroWhenMet ==
    (call.op = "findMinDist" /\ fGe(ScoreAt(0), call.targetBits)) =>
        call.result = Found(0)

\* findMinDist has returned 0 for a target met at dist = 0 in a pool where
\* larger dists score more.
C10_Witness ==
    /\ call.op = "findMinDist"
    /\ fGe(ScoreAt(0), call.targetBits)
    /\ call.result = Found(0)
    /\ fGt(ScoreAt(maxDistOf(call.outputAmount, call.maxDistTenths)), Zero)

(***************************************************************************)
(* findMinDist, one iteration of its loop at a time.  maxDistFraction is   *)
(* a number here, so that maxDist = Math.floor(outputAmount *              *)
(* maxDistFraction) can be what a double can be, Infinity included; lo, hi *)
(* and mid are numbers.  call holds the position in findMinDist (pc), lo   *)
(* and hi, and the number of iterations made (iter).                       *)
(***************************************************************************)
MaxIter == 8

fFloor(a) == IF IsFin(a) THEN Fin((a[2] \div One) * One) ELSE a

\* The integer dist a non-negative number stands for; a dist of Limit or more
\* is Infinity once it is a number (fromInt).
DistOf(x) == IF IsInf(x) THEN Limit ELSE x[2] \div One

maxDistNumber(outputAmount, maxDistFraction) ==
    fFloor(fMul(fromInt(outputAmount), maxDistFraction))

midOf(lo, hi) == fFloor(fDiv(fAdd(lo, hi), fromInt(2)))

\* Lines 300-311: up to the loop.
searchEnter(outputAmount, p, feeBps, kMin, kMax, targetBits, maxDist) ==
    IF fLt(privacyScore(outputAmount, DistOf(maxDist), p, feeBps, kMin, kMax), targetBits)
    THEN [pc |-> "done", null |-> TRUE, lo |-> Zero, hi |-> maxDist]
    ELSE IF fGe(privacyScore(outputAmount, 0, p, feeBps, kMin, kMax), targetBits)
    THEN [pc |-> "done", null |-> FALSE, lo |-> Zero, hi |-> Zero]
    ELSE [pc |-> "loop", null |-> FALSE, lo |-> Zero, hi |-> maxDist]

\* Lines 313-318: one iteration, mid given.
searchIterate(lo, hi, mid, outputAmount, p, feeBps, kMin, kMax, targetBits) ==
    IF fGe(privacyScore(outputAmount, DistOf(mid), p, feeBps, kMin, kMax), targetBits)
    THEN [lo |-> lo, hi |-> mid]
    ELSE [lo |-> mid, hi |-> hi]

SearchOutputAmounts == {20}
SearchKMins == {1, 2}
MaxDistFractions == {fromInt(2), PosInf}

SearchEnter ==
    \E outputAmount \in SearchOutputAmounts, feeBps \in SearchFeesBps,
       kMin \in SearchKMins, kMax \in KMaxs, targetBits \in TargetBits,
       maxDistFraction \in MaxDistFractions :
        /\ AfterPoolCall
        /\ call' = [op |-> "findMinDistLoop", outputAmount |-> outputAmount,
                    feeBps |-> feeBps, kMin |-> kMin, kMax |-> kMax,
                    targetBits |-> targetBits, iter |-> 0,
                    at |-> searchEnter(outputAmount, pool, feeBps, kMin, kMax, targetBits,
                                       maxDistNumber(outputAmount, maxDistFraction))]
        /\ UNCHANGED <<pool, live, matched, calls>>

InLoop == call.op = "findMinDistLoop" /\ call.at.pc = "loop"

SearchIterate ==
    /\ InLoop
    /\ fGt(fSub(call.at.hi, call.at.lo), FOne)
    /\ call.iter < MaxIter
    /\ call' = [call EXCEPT
                  !.iter = @ + 1,
                  !.at = [pc |-> "loop", null |-> FALSE] @@
                         searchIterate(call.at.lo, call.at.hi,
                                       midOf(call.at.lo, call.at.hi), call.outputAmount,
                                       pool, call.feeBps, call.kMin, call.kMax,
                                       call.targetBits)]
    /\ UNCHANGED <<pool, live, matched, calls>>

SearchReturn ==
    /\ InLoop
    /\ ~fGt(fSub(call.at.hi, call.at.lo), FOne)
    /\ call' = [call EXCEPT !.at.pc = "done"]
    /\ UNCHANGED <<pool, live, matched, calls>>

NextSearch ==
    \/ ScoreAddDeposit
    \/ ScoreRemoveDeposit
    \/ SearchEnter
    \/ SearchIterate
    \/ SearchReturn

SpecSearch == Init /\ [][NextSearch]_vars

\* C11: whenever the binary search loop of findMinDist is entered, hi - lo
\* strictly decreases on each iteration until hi - lo <= 1, also when maxDist
\* is infinite.
C11_SearchProgress ==
    [][(InLoop /\ call'.op = "findMinDistLoop" /\ call'.iter = call.iter + 1) =>
          fLt(fSub(call'.at.hi, call'.at.lo), fSub(call.at.hi, call.at.lo))]_vars

(***************************************************************************)
(* scoreLabel and privacyScoreTable.  A fraction of distFractions is given *)
(* in thousandths.  The table is computed on pools of up to MaxTableCalls  *)
(* deposits of one bucket, where the score comes to 10 bits.               *)
(***************************************************************************)
scoreLabelLe(bits) ==
    IF fLe(bits, fromInt(10)) THEN "Critical"
    ELSE IF fLe(bits, fromInt(20)) THEN "Weak"
    ELSE IF fLe(bits, fromInt(40)) THEN "Moderate"
    ELSE IF fLe(bits, fromInt(60)) THEN "Strong"
    ELSE "Very Strong"

scoreLabel(bits) ==
    IF fLt(bits, fromInt(10)) THEN "Critical"
    ELSE IF fLt(bits, fromInt(20)) THEN "Weak"
    ELSE IF fLt(bits, fromInt(40)) THEN "Moderate"
    ELSE IF fLt(bits, fromInt(60)) THEN "Strong"
    ELSE "Very Strong"

\* Math.round: the nearest integer, a half going up.
fRound(a) == fFloor(fAdd(a, Half))

\* Math.round(bits * 10) / 10
roundTenth(bits) == fDiv(fRound(fMul(bits, fromInt(10))), fromInt(10))

distOfFraction(outputAmount, thousandths) == (outputAmount * thousandths) \div 1000

rowOf(dist, bits) == [dist |-> dist, scoreBits |-> roundTenth(bits), label |-> scoreLabel(bits)]

privacyScoreTable(outputAmount, p, feeBps, kMin, kMax, distFractions) ==
    [i \in 1..Len(distFractions) |->
        rowOf(distOfFraction(outputAmount, distFractions[i]),
              privacyScore(outputAmount, distOfFraction(outputAmount, distFractions[i]),
                           p, feeBps, kMin, kMax))]

MaxTableCalls == 10
TableAmounts == {20, 40}
DistFractions == {<<0, 1, 10, 50>>, <<1000, 20000>>}

TableAddDeposit ==
    \E amount \in TableAmounts :
        /\ calls < MaxTableCalls
        /\ pool' = addDeposit(pool, amount)
        /\ call' = [op |-> "addDeposit", amount |-> amount]
        /\ calls' = calls + 1
        /\ UNCHANGED <<live, matched>>

PrivacyScoreTable ==
    \E outputAmount \in SearchOutputAmounts, kMax \in KMaxs, distFractions \in DistFractions :
        /\ AfterPoolCall
        /\ call' = [op |-> "privacyScoreTable", outputAmount |-> outputAmount,
                    kMax |-> kMax, distFractions |-> distFractions,
                    result |-> privacyScoreTable(outputAmount, pool, 10, 1, kMax,
                                                 distFractions)]
        /\ UNCHANGED <<pool, live, matched, calls>>

NextTable == TableAddDeposit \/ PrivacyScoreTable

SpecTable == Init /\ [][NextTable]_vars

\* C12: in every row returned by privacyScoreTable, label equals scoreLabel
\* applied to the row's scoreBits, the score rounded to one decimal.
C12_LabelOfScoreBits ==
    call.op = "privacyScoreTable" =>
        \A i \in 1..Len(call.result) :
            call.result[i].label = scoreLabel(call.result[i].scoreBits)

(***************************************************************************)
(* The pure functions scoreLabel, log2Binomial and normalCdf, called on    *)
(* arguments of their own: numbers on both sides of every threshold, the   *)
(* infinities and NaN.  They read no state, so each call is made once.     *)
(***************************************************************************)
MaxN == 12

LabelBits ==
    {NaN, PosInf, NegInf, fromInt(-1), Zero, fromInt(5), fromInt(15), fromInt(30),
     fromInt(50), fromInt(70)}
        \cup {Fin(t * One + e) : t \in {10, 20, 40, 60}, e \in {-1, 0, 1}}
CdfArgs ==
    {NaN, PosInf, NegInf} \cup {Fin(v * (One \div 8) + e) : v \in -72..72, e \in {-1, 0, 1}}

ScoreLabel ==
    \E bits \in LabelBits :
        /\ AfterPoolCall
        /\ call' = [op |-> "scoreLabel", bits |-> bits, result |-> scoreLabel(bits)]
        /\ UNCHANGED <<pool, live, matched, calls>>

Log2Binomial ==
    \E n \in 0..MaxN, k \in -2..(MaxN + 2) :
        /\ AfterPoolCall
        /\ call' = [op |-> "log2Binomial", n |-> n, k |-> k, result |-> log2Binomial(n, k)]
        /\ UNCHANGED <<pool, live, matched, calls>>

NormalCdf ==
    \E z \in CdfArgs :
        /\ AfterPoolCall
        /\ call' = [op |-> "normalCdf", z |-> z, result |-> normalCdf(z)]
        /\ UNCHANGED <<pool, live, matched, calls>>

NextFn == ScoreLabel \/ Log2Binomial \/ NormalCdf

SpecFn == Init /\ [][NextFn]_vars

\* C13: scoreLabel(bits) is "Critical" for bits < 10, "Weak" for
\* 10 <= bits < 20, "Moderate" for 20 <= bits < 40, "Strong" for
\* 40 <= bits < 60 and "Very Strong" for bits >= 60; each of 10, 20, 40, 60
\* belongs to the upper tier.
C13_ScoreLabelTiers ==
    call.op = "scoreLabel" =>
        /\ fLt(call.bits, fromInt(10)) => call.result = "Critical"
        /\ (fGe(call.bits, fromInt(10)) /\ fLt(call.bits, fromInt(20))) => call.result = "Weak"
        /\ (fGe(call.bits, fromInt(20)) /\ fLt(call.bits, fromInt(40))) =>
              call.result = "Moderate"
        /\ (fGe(call.bits, fromInt(40)) /\ fLt(call.bits, fromInt(60))) =>
              call.result = "Strong"
        /\ fGe(call.bits, fromInt(60)) => call.result = "Very Strong"

\* scoreLabel was called on a boundary value and put it in the upper tier.
C13_Witness ==
    /\ call.op = "scoreLabel"
    /\ call.bits \in {fromInt(10), fromInt(20), fromInt(40), fromInt(60)}
    /\ call.result \in {"Weak", "Moderate", "Strong", "Very Strong"}
    /\ call.result = scoreLabel(Fin(call.bits[2] + 1))

(***************************************************************************)
(* poolToJson / poolFromJson.  The JSON text is the sequence of its bucket *)
(* objects, a number or a string field being its sequence of decimal       *)
(* digits.  JSON.stringify writes lo, hi and count, which are numbers, and *)
(* the decimal string of each bigint sum; JSON.parse reads a number as the *)
(* nearest double, and BigInt reads a string exactly.                      *)
(***************************************************************************)
RECURSIVE toString(_)
toString(n) == IF n < 10 THEN <<n>> ELSE Append(toString(n \div 10), n % 10)

RECURSIVE ParseDigits(_, _, _)
ParseDigits(s, i, acc) ==
    IF i > Len(s) THEN acc ELSE ParseDigits(s, i + 1, 10 * acc + s[i])

BigIntOf(s) == ParseDigits(s, 1, 0)
parseNumber(s) == NumberOf(ParseDigits(s, 1, 0))

poolToJson(p) ==
    [j \in 1..Len(p) |->
        [lo |-> toString(p[j].lo), hi |-> toString(p[j].hi),
         count |-> toString(p[j].count),
         sumAmounts |-> toString(p[j].sumAmounts),
         sumAmountsSquared |-> toString(p[j].sumAmountsSquared)]]

poolFromJsonViaNumber(json) ==
    [j \in 1..Len(json) |->
        [lo |-> parseNumber(json[j].lo), hi |-> parseNumber(json[j].hi),
         count |-> parseNumber(json[j].count),
         sumAmounts |-> parseNumber(json[j].sumAmounts),
         sumAmountsSquared |-> parseNumber(json[j].sumAmountsSquared)]]

poolFromJson(json) ==
    [j \in 1..Len(json) |->
        [lo |-> parseNumber(json[j].lo), hi |-> parseNumber(json[j].hi),
         count |-> parseNumber(json[j].count),
         sumAmounts |-> BigIntOf(json[j].sumAmounts),
         sumAmountsSquared |-> BigIntOf(json[j].sumAmountsSquared)]]

(***************************************************************************)
(* The pool with its storage and selection interface: the pool is          *)
(* maintained as under Spec, live and matched included, and is serialized, *)
(* deserialized and searched by selectBucket in between.                   *)
(***************************************************************************)
PoolToJson ==
    /\ AfterPoolCall
    /\ call' = [op |-> "poolToJson", json |-> poolToJson(pool)]
    /\ UNCHANGED <<pool, live, matched, calls>>

PoolFromJson ==
    /\ call.op = "poolToJson"
    /\ call' = [op |-> "poolFromJson", result |-> poolFromJson(call.json)]
    /\ UNCHANGED <<pool, live, matched, calls>>

NextPool ==
    \/ AddDeposit
    \/ RemoveDeposit
    \/ SelectBucket
    \/ PoolToJson
    \/ PoolFromJson

SpecPool == Init /\ [][NextPool]_vars

\* C14: for every pool reachable by addDeposit/removeDeposit,
\* poolFromJson(poolToJson(pool)) has the same buckets in the same order,
\* each with identical lo, hi, count, sumAmounts and sumAmountsSquared.
C14_JsonRoundTrip ==
    call.op = "poolFromJson" => call.result = pool

\* A pool with a sum that no double holds has made the round trip.
C14_Witness ==
    /\ call.op = "poolFromJson"
    /\ \E j \in 1..Len(pool) :
         /\ pool[j].count > 0
         /\ NumberOf(pool[j].sumAmounts) # pool[j].sumAmounts
         /\ call.result[j].sumAmounts = pool[j].sumAmounts

\* The binomial coefficient, by Pascal's rule.
RECURSIVE Binomial(_, _)
Binomial(n, k) ==
    IF k < 0 \/ k > n THEN 0
    ELSE IF k = 0 \/ k = n THEN 1
    ELSE Binomial(n - 1, k - 1) + Binomial(n - 1, k)

\* Two numbers differ by at most 2^-9.
LogClose(a, b) == fLe(fAbs(fSub(a, b)), Fin(One \div 512))

\* C15: log2Binomial(n, k) is the base-2 logarithm of the binomial
\* coefficient C(n, k) when 0 <= k <= n, equal to log2Binomial(n, n - k), and
\* is 0 when k < 0 or k > n.
C15_Log2Binomial ==
    call.op = "log2Binomial" =>
        IF call.k < 0 \/ call.k > call.n THEN call.result = Zero
        ELSE /\ LogClose(call.result, fLog2(fromInt(Binomial(call.n, call.k))))
             /\ call.result = log2Binomial(call.n, call.n - call.k)

\* log2Binomial has run its loop over n - k < k factors.
C15_Witness ==
    /\ call.op = "log2Binomial"
    /\ call.k < call.n
    /\ call.n - call.k >= 3
    /\ call.n - call.k < call.k
    /\ fGt(call.result, fromInt(7))

\* C16: for every bucket returned by selectBucket(pool, target), no deposit
\* currently attributed to that bucket has an amount greater than target.
C16_NoDepositAboveTarget ==
    (call.op = "selectBucket" /\ call.result # 0 /\ matched) =>
        \A a \in AllAmounts :
            (live[a] > 0 /\ InRange(pool[call.result], NumberOf(a))) =>
                fLe(fromInt(a), call.target)

\* Two probabilities differ by at most 2^-11.
CdfClose(a, b) == fLe(fAbs(fSub(a, b)), Fin(One \div 2048))

\* C17: for every z, normalCdf(-z) = 1 - normalCdf(z) within the
\* approximation tolerance, also across the clamps at z < -8 and z > 8.
C17_CdfSymmetry ==
    (call.op = "normalCdf" /\ ~IsNaN(call.z)) =>
        CdfClose(normalCdf(fNeg(call.z)), fSub(FOne, call.result))

\* normalCdf was called on a negative z inside the clamps, where its value is
\* strictly between 0 and 1/2.
C17_Witness ==
    /\ call.op = "normalCdf"
    /\ fLt(call.z, Zero)
    /\ fGt(call.z, fromInt(-8))
    /\ fGt(call.result, Zero)
    /\ fLt(call.result, Half)

\* C18: addDeposit and removeDeposit decide bucket membership on the exact
\* integer amount: a bucket is updated if and only if lo <= amount < hi holds
\* for the unrounded amount.
C18_ExactMembership ==
    [][call'.op \in {"addDeposit", "removeDeposit"} =>
         \A j \in 1..Len(pool) :
            /\ pool'[j] # pool[j] => InRange(pool[j], call'.amount)
            /\ (call'.op = "addDeposit" /\ InRange(pool[j], call'.amount)) =>
                  pool'[j].count = pool[j].count + 1
            /\ (call'.op = "removeDeposit" /\ InRange(pool[j], call'.amount)
                  /\ pool[j].count > 0) =>
                  pool'[j].count = pool[j].count - 1]_vars

C20_EmptyBucketHasNoSums ==
    \A j \in 1..Len(pool) :
        pool[j].count = 0 => (pool[j].sumAmounts = 0 /\ pool[j].sumAmountsSquared = 0)

\* C21: in a pool made by createPool every non-negative amount lies in the
\* [lo, hi) of at least one bucket, so every addDeposit raises the count of
\* at least one bucket: no deposit is dropped.
C21_NoDepositDropped ==
    [][call'.op = "addDeposit" =>
         \E j \in 1..Len(pool) : pool'[j].count = pool[j].count + 1]_vars

\* Values of dist that a second call of privacyScore is given.
OtherDists == Dists \cup {1, 100, 1000}

\* C22: the bucket that privacyScore scores does not depend on dist: for the
\* same pool, outputAmount and feeBps, a call with any other dist selects the
\* same bucket as the call made (selection uses inputLo only).
C22_BucketIndependentOfDist ==
    call.op = "privacyScore" =>
        \A d \in OtherDists :
            bucketOf(call.outputAmount, d, pool, call.feeBps) = call.bucket

\* privacyScore was called with a dist that moves inputHi into the range of
\* another best bucket than the one of inputLo, and scored the bucket of
\* inputLo.
C22_Witness ==
    /\ call.op = "privacyScore"
    /\ call.dist > 0
    /\ call.bucket # 0
    /\ call.bucket = CallBucket
    /\ selectBucket(pool, inputHiOf(call.outputAmount, call.dist, call.feeBps))
          \notin {0, call.bucket}

====
